---- MODULE Spec2Model ----
(***************************************************************************)
(* Model of one run of monitor.py: main() loads the targets and the        *)
(* persisted state, starts one fetch coroutine per target behind an        *)
(* asyncio.Semaphore(MAX_CONCURRENCY), waits for all of them with          *)
(* asyncio.gather, then runs the sequential diff loop over the results,    *)
(* saves the state and sends at most one Telegram message.                 *)
(***************************************************************************)
EXTENDS Integers, Sequences, FiniteSets, TLC

VARIABLES
    raw_targets, \* contents of targets.json as load_json returns it
    targets,    \* List[Target] returned by parse_targets
    stateFile,  \* contents of state.json (url -> record)
    loaded,     \* what load_json(STATE_FILE, {}) returned to this run
    state,      \* main's in-memory `state` dict
    mainPc,     \* position of main()
    sem,        \* free slots of the asyncio.Semaphore
    pc,         \* position of each fetch coroutine
    pages,      \* tasks that hold an open page
    pending,    \* PageResult an except-branch is about to return
    nav,        \* page the task read from its navigation (NoPage before)
    results,    \* PageResult of each finished task (NoResult before)
    idx,        \* index of the next result of the diff loop
    changes,    \* main's `changes` list
    errors,     \* main's `errors` list
    sends,      \* calls of send_telegram made so far, with their outcome
    exitCode    \* process exit code (Running until the process ends)

vars == <<raw_targets, targets, stateFile, loaded, state, mainPc, sem, pc, pages, pending, nav,
          results, idx, changes, errors, sends, exitCode>>

\* Python's None is modelled as an absent field: an Optional attribute that is
\* None is a field the record does not have.
Has(rec, f) == f \in DOMAIN rec

\* ---------------------------------------------------------------- bounds

\* comment counts a page may show are 1..MaxCount
MaxCount == 2
\* target lists of the diff-oriented specification have at most MaxTargets entries
MaxTargets == 2
\* the concurrency specification runs MAX_CONCURRENCY + ExtraTasks targets
ExtraTasks == 1

\* ------------------------------------------------------------- constants

MAX_CONCURRENCY == 3

INVESTING == "investing_member_comments"
FULL_PAGE_HASH == "full_page_hash"

TIMEOUT == "Timeout caricamento pagina."
COUNT_NONE == "Impossibile leggere numero commenti (count=None)."
ERRORE == "Errore"

Running == -1

\* ---------------------------------------------------------------- values

Target(type, url) == [type |-> type, url |-> url]

\* The Target records a targets.json may produce: two URLs, the two known
\* kinds and an unknown kind.
TargetPool ==
    { Target(INVESTING, "u1"), Target(FULL_PAGE_HASH, "u1"),
      Target(FULL_PAGE_HASH, "u2"), Target("rss", "u2") }

\* A rendered page: the HTTP status of the navigation, the html, and, when the
\* html holds a "Totale (dei) commenti: N" text, the number N as `total`.
ChallengePage == [status |-> 403, html |-> "challenge"]

PagesOf(t) ==
    IF t.type = INVESTING
    THEN { [status |-> 200, html |-> "comments", total |-> c] : c \in 1..MaxCount }
         \cup { [status |-> 200, html |-> "comments"], ChallengePage }
    ELSE { [status |-> 200, html |-> h] : h \in {"a", "b"} } \cup {ChallengePage}

NoPage == [status |-> 0, html |-> ""]

\* a blocked or challenge page: HTTP status 401, 403 or 429, or a challenge body
Blocked(page) == page.status \in {401, 403, 429} \/ page.html = "challenge"

sha1(page) == <<"sha1", page.html, IF Has(page, "total") THEN page.total ELSE 0>>

\* PageResult(target=t, ok=False, error=...)
Failed(error) == [ok |-> FALSE, error |-> error]

NoResult == [ok |-> FALSE]

Tasks == 1..Len(targets)

EmptyDict == [u \in {} |-> 0]

\* dict.get(key, {})
DictGet(d, k) == IF k \in DOMAIN d THEN d[k] ELSE EmptyDict

\* d[k] = v
DictSet_SetDefault(d, k, v) ==
    [u \in (DOMAIN d) \cup {k} |-> IF u \in DOMAIN d THEN d[u] ELSE v]

DictSet(d, k, v) == [u \in (DOMAIN d) \cup {k} |-> IF u = k THEN v ELSE d[u]]

\* ----------------------------------------------------------- targets.json

\* A JSON string is a sequence of chunks, " " being white space; a JSON
\* document is a list of items or something else; an item is a string, an
\* object with some of the keys url and type, or another value.
RawList(items) == [list |-> items]
RawStr(chunks) == [str |-> chunks]
RawDict(fields) == [dict |-> fields]
RawOther == [other |-> 0]

\* the Python string of a JSON string
RECURSIVE Text(_)
Text(chunks) == IF chunks = <<>> THEN "" ELSE chunks[1] \o Text(Tail(chunks))

\* str.strip()
RECURSIVE LStrip(_)
LStrip(chunks) ==
    IF chunks # <<>> /\ chunks[1] = " " THEN LStrip(Tail(chunks)) ELSE chunks

RECURSIVE RStrip(_)
RStrip(chunks) ==
    IF chunks # <<>> /\ chunks[Len(chunks)] = " "
    THEN RStrip(SubSeq(chunks, 1, Len(chunks) - 1))
    ELSE chunks

Strip(chunks) == Text(RStrip(LStrip(chunks)))

\* item.get(key, default)
ItemGet(fields, key, default) == IF Has(fields, key) THEN fields[key] ELSE default

\* the Targets one item of the list adds to `out`
ParseItem_DefaultInvesting(item) ==
    IF Has(item, "str")
    THEN <<Target(FULL_PAGE_HASH, Text(item.str))>>
    ELSE IF Has(item, "dict")
    THEN LET url == Strip(ItemGet(item.dict, "url", <<>>))
             typ == Strip(ItemGet(item.dict, "type", <<INVESTING>>))
         IN  IF url = "" THEN <<>> ELSE <<Target(typ, url)>>
    ELSE <<>>

ParseItem(item) ==
    IF Has(item, "str")
    THEN <<Target(FULL_PAGE_HASH, Text(item.str))>>
    ELSE IF Has(item, "dict")
    THEN LET url == Strip(ItemGet(item.dict, "url", <<>>))
             typ == Strip(ItemGet(item.dict, "type", <<FULL_PAGE_HASH>>))
         IN  IF url = "" THEN <<>> ELSE <<Target(typ, url)>>
    ELSE <<>>

RECURSIVE ParseItems(_)
ParseItems(items) ==
    IF items = <<>> THEN <<>> ELSE ParseItem(items[1]) \o ParseItems(Tail(items))

parse_targets(raw) == IF Has(raw, "list") THEN ParseItems(raw.list) ELSE <<>>

\* a targets.json that lists the given Targets, one object each
RawOf(ts) ==
    RawList([i \in 1..Len(ts) |-> RawDict([url |-> <<ts[i].url>>, type |-> <<ts[i].type>>])])

\* ------------------------------------------------------------------ init

\* Records a previous run over TargetPool can have stored under URL u.
PriorRecords(u) ==
    UNION { IF t.type = INVESTING
            THEN { [type |-> t.type, count |-> c] : c \in 1..MaxCount }
            ELSE IF t.type = FULL_PAGE_HASH
            THEN { [type |-> t.type, page_hash |-> sha1([html |-> "a"])] }
            ELSE {} : t \in { x \in TargetPool : x.url = u } }

Urls == { t.url : t \in TargetPool }

PriorStates ==
    UNION { { f \in [D -> UNION { PriorRecords(u) : u \in Urls }] :
                \A u \in D : f[u] \in PriorRecords(u) } : D \in SUBSET Urls }

TargetLists(n) == UNION { [1..k -> TargetPool] : k \in 0..n }

InitRun ==
    /\ loaded = EmptyDict
    /\ state = EmptyDict
    /\ mainPc = "start"
    /\ sem = MAX_CONCURRENCY
    /\ pc = [i \in Tasks |-> "created"]
    /\ pages = {}
    /\ pending = [i \in Tasks |-> NoResult]
    /\ nav = [i \in Tasks |-> NoPage]
    /\ results = [i \in Tasks |-> NoResult]
    /\ idx = 1
    /\ changes = <<>>
    /\ errors = <<>>
    /\ sends = <<>>
    /\ exitCode = Running

Init ==
    /\ targets \in TargetLists(MaxTargets)
    /\ raw_targets = RawOf(targets)
    /\ stateFile \in PriorStates
    /\ InitRun

\* ------------------------------------------------------------------ main

\* main, up to the creation of the coroutines
Start ==
    /\ mainPc = "start"
    /\ IF targets = <<>>
       THEN /\ mainPc' = "done"
            /\ exitCode' = 1
            /\ UNCHANGED <<loaded, state, pc>>
       ELSE /\ loaded' = stateFile
            /\ state' = stateFile
            /\ pc' = [i \in Tasks |-> "waiting"]
            /\ mainPc' = "gather"
            /\ UNCHANGED exitCode
    /\ UNCHANGED <<raw_targets, targets, stateFile, sem, pages, pending, nav, results, idx,
                   changes, errors, sends>>

\* ------------------------------------------------------- fetch coroutines

\* async with sem: the coroutine takes a slot, or stays suspended
SemAcquire_NoWait(i) ==
    /\ mainPc = "gather"
    /\ pc[i] = "waiting"
    /\ sem' = sem - 1
    /\ pc' = [pc EXCEPT ![i] = "opening"]
    /\ UNCHANGED <<raw_targets, targets, stateFile, loaded, state, mainPc, pages, pending, nav,
                   results, idx, changes, errors, sends, exitCode>>

SemAcquire(i) ==
    /\ mainPc = "gather"
    /\ pc[i] = "waiting"
    /\ sem > 0
    /\ sem' = sem - 1
    /\ pc' = [pc EXCEPT ![i] = "opening"]
    /\ UNCHANGED <<raw_targets, targets, stateFile, loaded, state, mainPc, pages, pending, nav,
                   results, idx, changes, errors, sends, exitCode>>

\* page = await context.new_page(): outside the try block, so an exception
\* leaves `async with sem` (the slot is released) and reaches gather, which
\* re-raises it in main: the run ends with a traceback before the diff loop.
NewPage(i) ==
    /\ mainPc = "gather"
    /\ pc[i] = "opening"
    /\ \/ /\ pages' = pages \cup {i}
          /\ pc' = [pc EXCEPT ![i] = "navigating"]
          /\ UNCHANGED <<sem, mainPc, exitCode>>
       \/ /\ sem' = sem + 1
          /\ pc' = [pc EXCEPT ![i] = "raised"]
          /\ mainPc' = "aborted"
          /\ exitCode' = 1
          /\ UNCHANGED pages
    /\ UNCHANGED <<raw_targets, targets, stateFile, loaded, state, pending, nav, results, idx,
                   changes, errors, sends>>

\* page.route, page.goto, page.wait_for_timeout: the navigation completes,
\* times out (PWTimeoutError) or raises another exception
Goto(i) ==
    /\ mainPc = "gather"
    /\ pc[i] = "navigating"
    /\ \/ /\ pc' = [pc EXCEPT ![i] = "loaded"]
          /\ UNCHANGED pending
       \/ /\ pc' = [pc EXCEPT ![i] = "closing"]
          /\ pending' = [pending EXCEPT ![i] = Failed(TIMEOUT)]
       \/ /\ pc' = [pc EXCEPT ![i] = "closing"]
          /\ pending' = [pending EXCEPT ![i] = Failed(ERRORE)]
    /\ UNCHANGED <<raw_targets, targets, stateFile, loaded, state, mainPc, sem, pages, nav, results,
                   idx, changes, errors, sends, exitCode>>

\* extract_comment_count(html)
extract_comment_count(page) ==
    IF Has(page, "total") THEN [count |-> page.total] ELSE EmptyDict

\* what fetch_investing / fetch_full_hash return for the page they read
ResultOf_BlockGate(t, page) ==
    IF Blocked(page) THEN Failed(ERRORE)
    ELSE IF t.type = INVESTING
    THEN LET c == extract_comment_count(page)
         IN  IF Has(c, "count")
             THEN [ok |-> TRUE, count |-> c.count]
             ELSE Failed(COUNT_NONE)
    ELSE [ok |-> TRUE, page_hash |-> sha1(page)]

ResultOf(t, page) ==
    IF t.type = INVESTING
    THEN LET c == extract_comment_count(page)
         IN  IF Has(c, "count")
             THEN [ok |-> TRUE, count |-> c.count]
             ELSE Failed(COUNT_NONE)
    ELSE [ok |-> TRUE, page_hash |-> sha1(page)]

\* page.content(), the extraction, page.close() and the return: the slot is
\* released with the return. An exception of content() or close() enters the
\* `except Exception` branch.
Extract_AsCompleted(i) ==
    /\ mainPc = "gather"
    /\ pc[i] = "loaded"
    /\ \/ \E page \in PagesOf(targets[i]) :
            /\ nav' = [nav EXCEPT ![i] = page]
            /\ results' = [results EXCEPT
                             ![Cardinality({j \in Tasks : pc[j] = "done"}) + 1] =
                                 ResultOf(targets[i], page)]
            /\ pages' = pages \ {i}
            /\ sem' = sem + 1
            /\ pc' = [pc EXCEPT ![i] = "done"]
            /\ UNCHANGED pending
       \/ /\ pc' = [pc EXCEPT ![i] = "closing"]
          /\ pending' = [pending EXCEPT ![i] = Failed(ERRORE)]
          /\ UNCHANGED <<nav, results, pages, sem>>
    /\ UNCHANGED <<raw_targets, targets, stateFile, loaded, state, mainPc, idx, changes, errors,
                   sends, exitCode>>

Extract(i) ==
    /\ mainPc = "gather"
    /\ pc[i] = "loaded"
    /\ \/ \E page \in PagesOf(targets[i]) :
            /\ nav' = [nav EXCEPT ![i] = page]
            /\ results' = [results EXCEPT ![i] = ResultOf(targets[i], page)]
            /\ pages' = pages \ {i}
            /\ sem' = sem + 1
            /\ pc' = [pc EXCEPT ![i] = "done"]
            /\ UNCHANGED pending
       \/ /\ pc' = [pc EXCEPT ![i] = "closing"]
          /\ pending' = [pending EXCEPT ![i] = Failed(ERRORE)]
          /\ UNCHANGED <<nav, results, pages, sem>>
    /\ UNCHANGED <<raw_targets, targets, stateFile, loaded, state, mainPc, idx, changes, errors,
                   sends, exitCode>>

\* the except branches: page.close() (its own errors are swallowed), return of
\* the failed PageResult, release of the slot
ExceptClose_KeepsSlot(i) ==
    /\ mainPc = "gather"
    /\ pc[i] = "closing"
    /\ pages' = pages \ {i}
    /\ results' = [results EXCEPT ![i] = pending[i]]
    /\ pending' = [pending EXCEPT ![i] = NoResult]
    /\ pc' = [pc EXCEPT ![i] = "done"]
    /\ UNCHANGED <<raw_targets, targets, stateFile, loaded, state, mainPc, sem, nav, idx,
                   changes, errors, sends, exitCode>>

ExceptClose(i) ==
    /\ mainPc = "gather"
    /\ pc[i] = "closing"
    /\ pages' = pages \ {i}
    /\ results' = [results EXCEPT ![i] = pending[i]]
    /\ pending' = [pending EXCEPT ![i] = NoResult]
    /\ sem' = sem + 1
    /\ pc' = [pc EXCEPT ![i] = "done"]
    /\ UNCHANGED <<raw_targets, targets, stateFile, loaded, state, mainPc, nav, idx, changes,
                   errors, sends, exitCode>>

\* results = await asyncio.gather(*tasks), then context and browser are closed
Gather_FirstCompleted ==
    /\ mainPc = "gather"
    /\ \E i \in Tasks : pc[i] = "done"
    /\ mainPc' = "diff"
    /\ UNCHANGED <<raw_targets, targets, stateFile, loaded, state, sem, pc, pages, pending, nav,
                   results, idx, changes, errors, sends, exitCode>>

Gather ==
    /\ mainPc = "gather"
    /\ \A i \in Tasks : pc[i] = "done"
    /\ mainPc' = "diff"
    /\ UNCHANGED <<raw_targets, targets, stateFile, loaded, state, sem, pc, pages, pending, nav,
                   results, idx, changes, errors, sends, exitCode>>

\* ------------------------------------------------------------- diff loop

CountEvent(k, prev_count, count) ==
    [kind |-> "count", target |-> k, url |-> targets[k].url,
     prev |-> prev_count, cur |-> count]

HashEvent(k) == [kind |-> "hash", target |-> k, url |-> targets[k].url]

\* `if not res.ok:` the error is recorded and the iteration ends (continue)
DiffFailed_Writes(st, ch, er, k, res) ==
    [state |-> DictSet(st, targets[k].url, [type |-> targets[k].type]),
     changes |-> ch, errors |-> Append(er, k)]

DiffFailed(st, ch, er, k, res) ==
    [state |-> st, changes |-> ch, errors |-> Append(er, k)]

\* investing_member_comments: the record is overwritten, and an event is
\* appended only when the count grew
DiffInvesting_DefaultZero(st, ch, er, k, res) ==
    LET t == targets[k]
        prev == DictGet(st, t.url)
        prev_count == IF Has(prev, "count") THEN prev.count ELSE 0
    IN  [state |-> DictSet(st, t.url, [type |-> t.type, count |-> res.count]),
         changes |-> IF res.count > prev_count
                     THEN Append(ch, CountEvent(k, prev_count, res.count))
                     ELSE ch,
         errors |-> er]

DiffInvesting_AnyDifference(st, ch, er, k, res) ==
    LET t == targets[k]
        prev == DictGet(st, t.url)
    IN  [state |-> DictSet(st, t.url, [type |-> t.type, count |-> res.count]),
         changes |-> IF Has(prev, "count") /\ res.count # prev.count
                     THEN Append(ch, CountEvent(k, prev.count, res.count))
                     ELSE ch,
         errors |-> er]

DiffInvesting_GreaterOrEqual(st, ch, er, k, res) ==
    LET t == targets[k]
        prev == DictGet(st, t.url)
    IN  [state |-> DictSet(st, t.url, [type |-> t.type, count |-> res.count]),
         changes |-> IF Has(prev, "count") /\ res.count >= prev.count
                     THEN Append(ch, CountEvent(k, prev.count, res.count))
                     ELSE ch,
         errors |-> er]

DiffInvesting(st, ch, er, k, res) ==
    LET t == targets[k]
        prev == DictGet(st, t.url)
    IN  [state |-> DictSet(st, t.url, [type |-> t.type, count |-> res.count]),
         changes |-> IF Has(prev, "count") /\ res.count > prev.count
                     THEN Append(ch, CountEvent(k, prev.count, res.count))
                     ELSE ch,
         errors |-> er]

\* every other type: the record is overwritten, and an event is appended when
\* the page hash differs from the recorded one
DiffHash_Merges(st, ch, er, k, res) ==
    LET t == targets[k]
        prev == DictGet(st, t.url)
        merged == [f \in (DOMAIN prev) \cup {"type", "page_hash"} |->
                      IF f = "type" THEN t.type
                      ELSE IF f = "page_hash" THEN res.page_hash
                      ELSE prev[f]]
    IN  [state |-> DictSet(st, t.url, merged),
         changes |-> IF Has(prev, "page_hash") /\ res.page_hash # prev.page_hash
                     THEN Append(ch, HashEvent(k))
                     ELSE ch,
         errors |-> er]

DiffHash_ReadAfterWrite(st, ch, er, k, res) ==
    LET t == targets[k]
        st2 == DictSet(st, t.url, [type |-> t.type, page_hash |-> res.page_hash])
        prev == DictGet(st2, t.url)
    IN  [state |-> st2,
         changes |-> IF Has(prev, "page_hash") /\ res.page_hash # prev.page_hash
                     THEN Append(ch, HashEvent(k))
                     ELSE ch,
         errors |-> er]

DiffHash(st, ch, er, k, res) ==
    LET t == targets[k]
        prev == DictGet(st, t.url)
    IN  [state |-> DictSet(st, t.url, [type |-> t.type, page_hash |-> res.page_hash]),
         changes |-> IF Has(prev, "page_hash") /\ res.page_hash # prev.page_hash
                     THEN Append(ch, HashEvent(k))
                     ELSE ch,
         errors |-> er]

\* one iteration of `for res in results` on (state, changes, errors)
DiffOne(st, ch, er, k, res) ==
    IF ~res.ok THEN DiffFailed(st, ch, er, k, res)
    ELSE IF targets[k].type = INVESTING THEN DiffInvesting(st, ch, er, k, res)
    ELSE DiffHash(st, ch, er, k, res)

\* the whole loop `for res in results`, from result k on
RECURSIVE DiffLoop(_, _, _, _, _)
DiffLoop(st, ch, er, k, rs) ==
    IF k > Len(targets)
    THEN [state |-> st, changes |-> ch, errors |-> er]
    ELSE LET d == DiffOne(st, ch, er, k, rs[k])
         IN  DiffLoop(d.state, d.changes, d.errors, k + 1, rs)

DiffStep ==
    /\ mainPc = "diff"
    /\ idx <= Len(targets)
    /\ LET d == DiffOne(state, changes, errors, idx, results[idx])
       IN  /\ state' = d.state
           /\ changes' = d.changes
           /\ errors' = d.errors
    /\ idx' = idx + 1
    /\ UNCHANGED <<raw_targets, targets, stateFile, loaded, mainPc, sem, pc, pages, pending, nav,
                   results, sends, exitCode>>

\* save_json(STATE_FILE, state)
Save_OnlyTargets ==
    /\ mainPc = "diff"
    /\ idx > Len(targets)
    /\ stateFile' = [u \in {targets[i].url : i \in Tasks} \cap DOMAIN state |-> state[u]]
    /\ mainPc' = "notify"
    /\ UNCHANGED <<raw_targets, targets, loaded, state, sem, pc, pages, pending, nav, results, idx,
                   changes, errors, sends, exitCode>>

Save ==
    /\ mainPc = "diff"
    /\ idx > Len(targets)
    /\ stateFile' = state
    /\ mainPc' = "notify"
    /\ UNCHANGED <<raw_targets, targets, loaded, state, sem, pc, pages, pending, nav, results, idx,
                   changes, errors, sends, exitCode>>

\* what one call of send_telegram can do
SendOutcomes == {"not_configured", "http_error", "exception", "sent"}

\* if changes: send_telegram(msg); return 0
Notify_Threshold ==
    /\ mainPc = "notify"
    /\ IF changes # <<>> /\ Len(changes) < 2
       THEN \E o \in SendOutcomes :
               sends' = Append(sends, [msg |-> changes, outcome |-> o])
       ELSE UNCHANGED sends
    /\ mainPc' = "done"
    /\ exitCode' = 0
    /\ UNCHANGED <<raw_targets, targets, stateFile, loaded, state, sem, pc, pages, pending, nav,
                   results, idx, changes, errors>>

Notify_Resend ==
    /\ mainPc = "notify"
    /\ IF changes # <<>>
       THEN \E o1, o2 \in SendOutcomes :
               sends' = IF o1 = "sent"
                        THEN Append(sends, [msg |-> changes, outcome |-> o1])
                        ELSE sends \o <<[msg |-> changes, outcome |-> o1],
                                        [msg |-> changes, outcome |-> o2]>>
       ELSE UNCHANGED sends
    /\ mainPc' = "done"
    /\ exitCode' = 0
    /\ UNCHANGED <<raw_targets, targets, stateFile, loaded, state, sem, pc, pages,
                   pending, nav, results, idx, changes, errors>>

Notify_RollsBack ==
    /\ mainPc = "notify"
    /\ IF changes # <<>>
       THEN \E o \in SendOutcomes :
               /\ sends' = Append(sends, [msg |-> changes, outcome |-> o])
               /\ stateFile' = IF o = "sent" THEN stateFile ELSE loaded
       ELSE UNCHANGED <<sends, stateFile>>
    /\ mainPc' = "done"
    /\ exitCode' = 0
    /\ UNCHANGED <<raw_targets, targets, loaded, state, sem, pc, pages,
                   pending, nav, results, idx, changes, errors>>

Notify ==
    /\ mainPc = "notify"
    /\ IF changes # <<>>
       THEN \E o \in SendOutcomes :
               sends' = Append(sends, [msg |-> changes, outcome |-> o])
       ELSE UNCHANGED sends
    /\ mainPc' = "done"
    /\ exitCode' = 0
    /\ UNCHANGED <<raw_targets, targets, stateFile, loaded, state, sem, pc, pages, pending, nav,
                   results, idx, changes, errors>>

Next ==
    \/ Start
    \/ \E i \in Tasks : SemAcquire(i)
    \/ \E i \in Tasks : NewPage(i)
    \/ \E i \in Tasks : Goto(i)
    \/ \E i \in Tasks : Extract(i)
    \/ \E i \in Tasks : ExceptClose(i)
    \/ Gather
    \/ DiffStep
    \/ Save
    \/ Notify

Spec == Init /\ [][Next]_vars

\* The same program on MAX_CONCURRENCY + ExtraTasks targets and a first run.
ConcTargets ==
    [i \in 1..(MAX_CONCURRENCY + ExtraTasks) |->
        IF i = 1 THEN Target(INVESTING, "u1") ELSE Target(FULL_PAGE_HASH, "u2")]

InitConc ==
    /\ targets \in {<<>>, ConcTargets}
    /\ raw_targets = RawOf(targets)
    /\ stateFile = EmptyDict
    /\ InitRun

SpecConc == InitConc /\ [][Next]_vars

\* ---------------------------------------------------------- several runs

\* The targets.json documents of the runs: a bare URL and a padded record; a
\* record without type, records with blank and without url, an unknown type;
\* something that is not a list; a list whose only record has an empty url;
\* one URL listed twice.
RawInputs ==
    { RawList(<<RawStr(<<"u2">>),
                RawDict([url |-> <<" ", "u1", " ">>, type |-> <<INVESTING>>])>>),
      RawList(<<RawDict([url |-> <<"u1">>]),
                RawDict([url |-> <<" ">>, type |-> <<INVESTING>>]),
                RawDict([type |-> <<INVESTING>>]),
                RawOther,
                RawDict([url |-> <<"u2">>, type |-> <<"rss", " ">>])>>),
      [object |-> 0],
      RawList(<<RawDict([url |-> <<>>, type |-> <<FULL_PAGE_HASH>>])>>),
      RawList(<<RawDict([url |-> <<"u1">>, type |-> <<INVESTING>>]),
                RawDict([url |-> <<"u1">>, type |-> <<INVESTING>>])>>) }

\* the process has ended and is started again (by its scheduler), possibly on
\* an edited targets.json; state.json is what the earlier runs left
Rerun ==
    /\ mainPc \in {"done", "aborted"}
    /\ raw_targets' \in RawInputs
    /\ targets' = parse_targets(raw_targets')
    /\ loaded' = EmptyDict
    /\ state' = EmptyDict
    /\ mainPc' = "start"
    /\ sem' = MAX_CONCURRENCY
    /\ pc' = [i \in 1..Len(targets') |-> "created"]
    /\ pages' = {}
    /\ pending' = [i \in 1..Len(targets') |-> NoResult]
    /\ nav' = [i \in 1..Len(targets') |-> NoPage]
    /\ results' = [i \in 1..Len(targets') |-> NoResult]
    /\ idx' = 1
    /\ changes' = <<>>
    /\ errors' = <<>>
    /\ sends' = <<>>
    /\ exitCode' = Running
    /\ UNCHANGED stateFile

\* the first run finds no state.json
InitRuns ==
    /\ raw_targets \in RawInputs
    /\ targets = parse_targets(raw_targets)
    /\ stateFile = EmptyDict
    /\ InitRun

NextRuns == Next \/ Rerun

SpecRuns == InitRuns /\ [][NextRuns]_vars

\* ---------------------------------------------------------------- claims

\* the diff loop has processed every result and the state is not saved yet:
\* stateFile still is the state loaded at the start of the run
DiffDone == mainPc = "diff" /\ idx > Len(targets)

Url(i) == targets[i].url

SameEntry(d1, d2, u) ==
    /\ (u \in DOMAIN d1) <=> (u \in DOMAIN d2)
    /\ DictGet(d1, u) = DictGet(d2, u)

EventsOf(i) == { n \in 1..Len(changes) : changes[n].target = i }

\* target i is fetched ok and no later target of the same URL is
LastOk(i) ==
    /\ results[i].ok
    /\ \A j \in Tasks : (j > i /\ Url(j) = Url(i)) => ~results[j].ok

\* target i is fetched ok and no earlier target of the same URL is
FirstOk(i) ==
    /\ results[i].ok
    /\ \A j \in Tasks : (j < i /\ Url(j) = Url(i)) => ~results[j].ok

\* the record stored under the URL of target i holds the signature of result i
HoldsSignature(d, i) ==
    /\ Url(i) \in DOMAIN d
    /\ IF targets[i].type = INVESTING
       THEN Has(d[Url(i)], "count") /\ d[Url(i)].count = results[i].count
       ELSE Has(d[Url(i)], "page_hash") /\ d[Url(i)].page_hash = results[i].page_hash

\* C1 as stated: after the diff loop, the entry under the URL of every failed
\* target is the loaded entry (absent if it was absent).
C1_FailedKeepsLoadedEntry ==
    DiffDone =>
        \A i \in Tasks : ~results[i].ok => SameEntry(state, stateFile, Url(i))

\* C1 amended: after the diff loop, the entry under the URL of a failed target
\* is the loaded entry (absent if it was absent), unless another target of the
\* run has the same URL and was fetched ok.
C1_FailedKeepsEntryUnlessSharedUrl ==
    DiffDone =>
        \A i \in Tasks :
            (/\ ~results[i].ok
             /\ \A j \in Tasks : Url(j) = Url(i) => ~results[j].ok)
            => SameEntry(state, stateFile, Url(i))

\* a failed target with a stored baseline, in a run that changed another entry
C1_Witness ==
    /\ DiffDone
    /\ \E i \in Tasks :
          /\ results[i] = Failed(TIMEOUT)
          /\ Url(i) \in DOMAIN stateFile
          /\ state[Url(i)] = stateFile[Url(i)]
    /\ state # stateFile

\* C2 as stated: a target whose URL is absent from the loaded state never gets
\* an event, the state is populated with the fetched signature, and a run on
\* an empty loaded state has no events.
C2_FirstRunNoEvent ==
    DiffDone =>
        /\ \A i \in Tasks :
              (results[i].ok /\ Url(i) \notin DOMAIN stateFile)
              => (EventsOf(i) = {} /\ Url(i) \in DOMAIN state)
        /\ stateFile = EmptyDict => changes = <<>>

\* C2 amended: a target whose URL is absent from the loaded state and is not
\* the URL of an earlier ok target of the run never gets an event; the state
\* holds the signature of the last ok target of each URL; a run on an empty
\* loaded state whose ok targets have pairwise distinct URLs has no events.
C2_FirstObservationNoEvent ==
    DiffDone =>
        /\ \A i \in Tasks :
              (FirstOk(i) /\ Url(i) \notin DOMAIN stateFile) => EventsOf(i) = {}
        /\ \A i \in Tasks : LastOk(i) => HoldsSignature(state, i)
        /\ (stateFile = EmptyDict /\ \A i \in Tasks : results[i].ok => FirstOk(i))
           => changes = <<>>

\* two first observations on an empty loaded state
C2_Witness ==
    /\ DiffDone
    /\ stateFile = EmptyDict
    /\ Len(targets) = 2
    /\ Url(1) # Url(2)
    /\ results[1].ok /\ results[2].ok
    /\ targets[1].type = INVESTING /\ targets[2].type # INVESTING
    /\ DOMAIN state = {Url(1), Url(2)}
    /\ changes = <<>>

\* the next step of main is the diff iteration of an ok result of kind `inv`
\* (count kind or not) whose URL has a record with field f
DiffsOk(inv, f) ==
    /\ mainPc = "diff"
    /\ idx <= Len(targets)
    /\ results[idx].ok
    /\ (targets[idx].type = INVESTING) = inv
    /\ Has(DictGet(state, Url(idx)), f)

\* C3: the diff iteration of an ok count-kind target whose URL has a recorded
\* count appends an event (for that target, from the recorded to the new
\* count) iff the new count is greater than the recorded one, and in every
\* case stores the new count.
C3_CountMonotonic ==
    [][DiffsOk(TRUE, "count") =>
        LET prev_count == state[Url(idx)].count
            count == results[idx].count
        IN  /\ state'[Url(idx)].count = count
            /\ IF count > prev_count
               THEN changes' = Append(changes, CountEvent(idx, prev_count, count))
               ELSE changes' = changes]_vars

\* a smaller count was stored without an event
C3_Witness ==
    /\ DiffDone
    /\ \E i \in Tasks :
          /\ targets[i].type = INVESTING
          /\ results[i].ok
          /\ \A j \in Tasks : j # i => Url(j) # Url(i)
          /\ Has(DictGet(stateFile, Url(i)), "count")
          /\ results[i].count < stateFile[Url(i)].count
          /\ state[Url(i)].count = results[i].count
          /\ EventsOf(i) = {}

\* C4: the diff iteration of an ok target of any other kind whose URL has a
\* recorded page hash appends an event for that target iff the new hash
\* differs from the recorded one, and in both cases stores the new hash.
C4_HashChange ==
    [][DiffsOk(FALSE, "page_hash") =>
        LET prev_hash == state[Url(idx)].page_hash
            page_hash == results[idx].page_hash
        IN  /\ state'[Url(idx)].page_hash = page_hash
            /\ IF page_hash # prev_hash
               THEN changes' = Append(changes, HashEvent(idx))
               ELSE changes' = changes]_vars

\* a target of an unknown kind whose hash changed got an event
C4_Witness ==
    /\ DiffDone
    /\ \E i \in Tasks :
          /\ targets[i].type = "rss"
          /\ results[i].ok
          /\ \A j \in Tasks : j # i => Url(j) # Url(i)
          /\ Has(DictGet(stateFile, Url(i)), "page_hash")
          /\ results[i].page_hash # stateFile[Url(i)].page_hash
          /\ state[Url(i)].page_hash = results[i].page_hash
          /\ EventsOf(i) # {}

\* C5 as stated: a run in which two or more targets qualify for an event
\* delivers no notification, and the saved state holds the latest signature
\* of every target fetched ok.
C5_AntiSpamSuppresses ==
    (mainPc = "done" /\ Len(changes) >= 2) =>
        /\ \A n \in 1..Len(sends) : sends[n].outcome # "sent"
        /\ \A i \in Tasks : LastOk(i) => HoldsSignature(stateFile, i)

\* C5 amended: there is no threshold. A run with at least one event, two or
\* more included, makes exactly one send_telegram call whose message batches
\* all events of the run; a run without events makes none; the saved state
\* holds the latest signature of every target fetched ok.
C5_OneBatchedSend ==
    mainPc = "done" =>
        /\ IF changes = <<>>
           THEN sends = <<>>
           ELSE Len(sends) = 1 /\ sends[1].msg = changes
        /\ \A i \in Tasks : LastOk(i) => HoldsSignature(stateFile, i)

\* two events in one run, delivered in one message
C5_Witness ==
    /\ mainPc = "done"
    /\ Len(changes) = 2
    /\ changes[1].url # changes[2].url
    /\ sends = <<[msg |-> changes, outcome |-> "sent"]>>
    /\ \A i \in Tasks : results[i].ok /\ HoldsSignature(stateFile, i)

OnlyOkOfItsUrl(i) == \A j \in Tasks : (j # i /\ Url(j) = Url(i)) => ~results[j].ok

\* C6 as stated: a target whose navigation returned a blocked page ends in a
\* failed result, gets no event, and its stored entry stays the loaded one.
C6_BlockGate ==
    \A i \in Tasks :
        (pc[i] = "done" /\ Blocked(nav[i])) =>
            /\ ~results[i].ok
            /\ DiffDone =>
                  /\ EventsOf(i) = {}
                  /\ OnlyOkOfItsUrl(i) => SameEntry(state, stateFile, Url(i))

\* C6 amended: the status of the navigation is never inspected. A blocked
\* page without a readable comment count makes a count-kind target fail
\* (count not readable), with no event for it; for a target of any other kind
\* the blocked page is a normal ok fetch: its hash is the result, is stored as
\* the new baseline and raises an event when a different hash was recorded.
C6_BlockedPageIsOrdinaryPage ==
    \A i \in Tasks :
        (pc[i] = "done" /\ Blocked(nav[i])) =>
            IF targets[i].type = INVESTING
            THEN ~Has(nav[i], "total") =>
                    /\ results[i] = Failed(COUNT_NONE)
                    /\ DiffDone => EventsOf(i) = {}
            ELSE /\ results[i] = [ok |-> TRUE, page_hash |-> sha1(nav[i])]
                 /\ DiffDone =>
                       /\ LastOk(i) => state[Url(i)].page_hash = sha1(nav[i])
                       /\ (FirstOk(i) /\ Has(DictGet(stateFile, Url(i)), "page_hash")
                             /\ stateFile[Url(i)].page_hash # sha1(nav[i]))
                          => EventsOf(i) # {}

\* a challenge page replaced a recorded page hash and raised an event
C6_Witness ==
    /\ DiffDone
    /\ \E i \in Tasks :
          /\ nav[i] = ChallengePage
          /\ Has(DictGet(stateFile, Url(i)), "page_hash")
          /\ state[Url(i)].page_hash = sha1(ChallengePage)
          /\ EventsOf(i) # {}

\* tasks between the acquisition and the release of their slot
Holders == { i \in Tasks : pc[i] \in {"opening", "navigating", "loaded", "closing"} }

\* C7: at most MAX_CONCURRENCY tasks hold a slot, hence at most
\* MAX_CONCURRENCY pages are open, and the free slots are exactly the ones not
\* held, so a task finding none stays waiting until a release.
C7_BoundedConcurrency ==
    /\ pages \subseteq Holders
    /\ Cardinality(pages) <= MAX_CONCURRENCY
    /\ Cardinality(Holders) <= MAX_CONCURRENCY
    /\ sem = MAX_CONCURRENCY - Cardinality(Holders)

\* MAX_CONCURRENCY pages are open and another task waits for a slot
C7_Witness ==
    /\ Cardinality(pages) = MAX_CONCURRENCY
    /\ sem = 0
    /\ \E i \in Tasks : pc[i] = "waiting"

\* C8: an error raised in one fetch task becomes a failed result of that task
\* and never aborts the run.
C8_Isolation ==
    /\ mainPc # "aborted"
    /\ \A i \in Tasks : pc[i] # "raised"

\* C9: while a fetch task has no terminal result the loaded state is neither
\* compared nor written and there is no event; once the diff loop has acted,
\* every task has returned its result.
C9_Barrier ==
    /\ (\E i \in Tasks : pc[i] \notin {"created", "done"}) =>
          /\ state = stateFile
          /\ changes = <<>>
          /\ errors = <<>>
          /\ idx = 1
          /\ sends = <<>>
    /\ (mainPc # "start" /\ (state # stateFile \/ changes # <<>> \/ idx > 1)) =>
          \A i \in Tasks : pc[i] = "done" /\ results[i] # NoResult

\* one task has returned an ok result while another is still navigating
C9_Witness ==
    /\ mainPc = "gather"
    /\ \E i, j \in Tasks :
          /\ pc[i] = "done" /\ results[i].ok
          /\ pc[j] = "navigating"
    /\ state = stateFile

\* C10 as stated: diffing the same results again, against the state the first
\* diff produced, leaves that state unchanged and produces no event.
C10_Idempotent ==
    DiffDone =>
        LET again == DiffLoop(state, <<>>, <<>>, 1, results)
        IN  again.state = state /\ again.changes = <<>>

\* C10 amended: the same, for results whose ok targets have pairwise distinct
\* URLs.
C10_IdempotentDistinctUrls ==
    (DiffDone /\ \A i \in Tasks : results[i].ok => OnlyOkOfItsUrl(i)) =>
        LET again == DiffLoop(state, <<>>, <<>>, 1, results)
        IN  again.state = state /\ again.changes = <<>>

\* a first diff that changed two entries and raised an event
C10_Witness ==
    /\ DiffDone
    /\ Len(targets) = 2
    /\ Url(1) # Url(2)
    /\ results[1].ok /\ results[2].ok
    /\ changes # <<>>
    /\ state[Url(1)] # DictGet(stateFile, Url(1))
    /\ state[Url(2)] # DictGet(stateFile, Url(2))

\* the run has ended normally
RunDone == mainPc = "done" /\ exitCode = 0

DistinctUrls == \A i, j \in Tasks : i # j => Url(i) # Url(j)

\* result i differs from the baseline loaded by this run the way its kind
\* reports: a greater count, or another page hash
RealChange(i) ==
    /\ results[i].ok
    /\ LET base == DictGet(loaded, Url(i))
       IN  IF targets[i].type = INVESTING
           THEN Has(base, "count") /\ results[i].count > base.count
           ELSE Has(base, "page_hash") /\ results[i].page_hash # base.page_hash

\* the events of target i in the send_telegram calls of this run
AttemptsOf(i) ==
    { <<n, m>> \in (1..Len(sends)) \X (1..Len(changes)) :
        m <= Len(sends[n].msg) /\ sends[n].msg[m].target = i }

DeliveriesOf(i) == { a \in AttemptsOf(i) : sends[a[1]].outcome = "sent" }

\* what a later run that fetches the same results would report
Redetected == DiffLoop(stateFile, <<>>, <<>>, 1, results).changes

\* C11 as stated (for runs whose targets have distinct URLs): every real
\* change of a run is delivered exactly once, whatever the outcome of the
\* send, and a later run does not report it again.
C11_ExactlyOnce ==
    (RunDone /\ DistinctUrls) =>
        /\ \A i \in Tasks : RealChange(i) => Cardinality(DeliveriesOf(i)) = 1
        /\ Redetected = <<>>

\* C11 amended: in a run whose targets have distinct URLs, every real change
\* is put into exactly one send_telegram call, and is delivered once if that
\* call succeeds and never otherwise; nothing else is sent; the baseline is
\* saved whatever the outcome, so a later run does not report the change
\* again.
C11_AtMostOnce ==
    (RunDone /\ DistinctUrls) =>
        /\ \A i \in Tasks :
              IF RealChange(i)
              THEN /\ Len(sends) = 1
                   /\ Cardinality(AttemptsOf(i)) = 1
                   /\ Cardinality(DeliveriesOf(i)) =
                         (IF sends[1].outcome = "sent" THEN 1 ELSE 0)
              ELSE AttemptsOf(i) = {}
        /\ Redetected = <<>>

\* a change was detected in a run without credentials: the baseline moved on
\* and nothing was delivered
C11_Witness ==
    /\ RunDone
    /\ DistinctUrls
    /\ \E i \in Tasks :
          /\ RealChange(i)
          /\ sends = <<[msg |-> changes, outcome |-> "not_configured"]>>
          /\ HoldsSignature(stateFile, i)
          /\ ~HoldsSignature(loaded, i)

\* C12: once the diff loop is over, state.json holds the state the diff loop
\* computed from the loaded state and the results, before any send and
\* whatever its outcome; the run makes at most one send_telegram call and
\* ends with exit code 0.
C12_StateIndependentOfSend ==
    /\ (mainPc \in {"notify", "done"} /\ targets # <<>>) =>
          /\ stateFile = DiffLoop(loaded, <<>>, <<>>, 1, results).state
          /\ stateFile = state
          /\ Len(sends) <= 1
          /\ mainPc = "done" => exitCode = 0
    /\ sends # <<>> => mainPc = "done"

\* the request raised, the new state stays saved and the exit code is 0
C12_Witness ==
    /\ mainPc = "done"
    /\ sends = <<[msg |-> changes, outcome |-> "exception"]>>
    /\ stateFile # loaded
    /\ stateFile = state
    /\ exitCode = 0

\* C13: a run on a non-empty target list ends with exit code 0; another exit
\* code occurs only for an empty target list, before any fetch and without
\* loading or writing the state.
C13_ExitCodes ==
    /\ (targets # <<>> /\ exitCode # Running) => exitCode = 0
    /\ (exitCode # Running /\ exitCode # 0) =>
          /\ targets = <<>>
          /\ mainPc = "done"
          /\ loaded = EmptyDict /\ state = EmptyDict
          /\ sends = <<>>

\* ------------------------------------------------------ C14 parse_targets

\* a JSON string with something else than white space in it
NonBlank(chunks) == \E n \in 1..Len(chunks) : chunks[n] # " "

\* the items of targets.json that parse_targets is to keep
Kept(raw) ==
    IF ~Has(raw, "list") THEN {}
    ELSE { n \in 1..Len(raw.list) :
             \/ Has(raw.list[n], "str")
             \/ /\ Has(raw.list[n], "dict")
                /\ Has(raw.list[n].dict, "url")
                /\ NonBlank(raw.list[n].dict.url) }

\* the position in `targets` of kept item n
Rank(raw, n) == Cardinality({ m \in Kept(raw) : m <= n })

\* C14: targets holds, in order, one Target per bare string (whole-page hash,
\* the string as url) and one per record whose url is not empty once white
\* space is stripped (its type, whole-page hash when missing), and nothing
\* for other records or for a document that is not a list; an ok target of
\* any type but the count type gets a page hash as result and as record.
C14_TargetNormalization ==
    /\ Len(targets) = Cardinality(Kept(raw_targets))
    /\ \A n \in Kept(raw_targets) :
          LET item == raw_targets.list[n]
              t == targets[Rank(raw_targets, n)]
          IN  IF Has(item, "str")
              THEN t = Target(FULL_PAGE_HASH, Text(item.str))
              ELSE /\ t.url # "" /\ t.url = Strip(item.dict.url)
                   /\ IF Has(item.dict, "type")
                      THEN t.type = Strip(item.dict.type)
                      ELSE t.type = FULL_PAGE_HASH
    /\ \A i \in Tasks :
          (targets[i].type # INVESTING /\ results[i].ok) =>
              /\ Has(results[i], "page_hash") /\ ~Has(results[i], "count")
              /\ (mainPc = "diff" /\ idx > i /\ LastOk(i)) => HoldsSignature(state, i)

\* a document with blank-url, url-less and type-less records was parsed, and
\* a target of an unknown type was diffed by its page hash
C14_Witness ==
    /\ Has(raw_targets, "list")
    /\ Len(raw_targets.list) = 5
    /\ targets = <<Target(FULL_PAGE_HASH, "u1"), Target("rss", "u2")>>
    /\ DiffDone
    /\ results[2].ok
    /\ state["u2"] = [type |-> "rss", page_hash |-> results[2].page_hash]

\* C15: the events of the notification are in the order of the targets of
\* the list: result i is the result of target i whatever the order in which
\* the tasks completed, and the events are the ones the loop computes from
\* the loaded state and the results alone.
C15_EventOrder ==
    /\ \A m, n \in 1..Len(changes) : m < n => changes[m].target < changes[n].target
    /\ \A i \in Tasks : results[i].ok => results[i] = ResultOf(targets[i], nav[i])
    /\ (DiffDone \/ mainPc \in {"notify", "done"}) /\ targets # <<>> =>
          changes = DiffLoop(loaded, <<>>, <<>>, 1, results).changes
    /\ \A n \in 1..Len(sends) : sends[n].msg = changes

\* both targets changed and the message lists target 1 before target 2
C15_Witness ==
    /\ mainPc = "done"
    /\ Len(targets) = 2
    /\ Len(changes) = 2
    /\ changes[1].target = 1 /\ changes[1].url = targets[1].url
    /\ changes[2].target = 2 /\ changes[2].url = targets[2].url
    /\ Len(sends) = 1 /\ sends[1].msg = changes

\* C16: when the navigation of target i times out, the step touches no other
\* task and does not stop the run; task i then closes its page, releases its
\* slot and returns a failed result with the timeout reason, and after that
\* it stays done with that result and never navigates or reads a page.
C16_TimeoutHandling ==
    [][\A i \in Tasks :
          /\ (pending[i] # Failed(TIMEOUT) /\ pending'[i] = Failed(TIMEOUT)) =>
                /\ pc[i] = "navigating" /\ pc'[i] = "closing"
                /\ mainPc' = mainPc
                /\ \A j \in Tasks \ {i} : pc'[j] = pc[j] /\ results'[j] = results[j]
          /\ pending[i] = Failed(TIMEOUT) =>
                /\ pc[i] = "closing"
                /\ pc'[i] \in {"closing", "done"}
                /\ pc'[i] = "done" =>
                      /\ results'[i] = Failed(TIMEOUT)
                      /\ i \notin pages'
                      /\ sem' = sem + 1
          /\ results[i] = Failed(TIMEOUT) =>
                /\ pc[i] = "done" /\ pc'[i] = "done"
                /\ results'[i] = results[i]
                /\ i \notin pages /\ i \notin pages'
                /\ nav[i] = NoPage /\ nav'[i] = NoPage]_vars

\* one task timed out and is done, its page closed and its slot free, while
\* a sibling returned ok and another is still navigating
C16_Witness ==
    \E i, j, k \in Tasks :
        /\ results[i] = Failed(TIMEOUT) /\ pc[i] = "done" /\ i \notin pages
        /\ results[j].ok
        /\ pc[k] = "navigating"
        /\ sem = MAX_CONCURRENCY - Cardinality(Holders)
        /\ i \notin Holders

\* ------------------------------------------------------- C17 termination

\* The event loop runs every coroutine that is ready: a task that can take
\* its next step takes it, main takes its own, and asyncio.Semaphore wakes
\* its waiters first come first served, so a waiting task is not overtaken
\* for ever.
FairConc ==
    /\ InitConc
    /\ [][Next]_vars
    /\ \A i \in 1..(MAX_CONCURRENCY + ExtraTasks) :
          /\ SF_vars(SemAcquire(i))
          /\ WF_vars(NewPage(i) \/ Goto(i) \/ Extract(i) \/ ExceptClose(i))
    /\ WF_vars(Start \/ Gather \/ DiffStep \/ Save \/ Notify)

\* C17: every fetch task ends with exactly one result, ok or failed, and
\* with its slot released, and a run on a non-empty list cannot stop before
\* the diff phase has seen one result per target: whenever no step is
\* possible the run is done, with as many results as targets.
C17_Termination ==
    /\ \A i \in Tasks : pc[i] = "done" <=> results[i] # NoResult
    /\ (targets # <<>> /\ ~ENABLED Next) =>
          /\ mainPc = "done"
          /\ \A i \in Tasks : results[i] # NoResult
          /\ idx = Len(targets) + 1
          /\ sem = MAX_CONCURRENCY

\* ------------------------------------------------------ C18 unique URLs

\* the ok targets before position k that have the URL of target k
EarlierOk(k) == { j \in 1..(k - 1) : Url(j) = Url(k) /\ results[j].ok }

\* the greatest element of a non-empty set of positions
Last(S) == CHOOSE j \in S : \A m \in S : m <= j

\* C18 as stated: when the loop comes to a target, the entry under its URL is
\* still the loaded one (no entry is written twice in a run, every decision
\* compares against the loaded entry).
C18_ComparesAgainstLoaded ==
    (mainPc = "diff" /\ idx <= Len(targets)) => SameEntry(state, loaded, Url(idx))

\* C18 amended: the list may repeat a URL; when the loop comes to a target,
\* the entry under its URL is the loaded one if no earlier target of that URL
\* was fetched ok, and otherwise the record written for the last such target.
C18_ComparesAgainstLastWrite ==
    (mainPc = "diff" /\ idx <= Len(targets)) =>
        IF EarlierOk(idx) = {}
        THEN SameEntry(state, loaded, Url(idx))
        ELSE HoldsSignature(state, Last(EarlierOk(idx)))

\* the loop comes to the second target of a URL whose entry the first target
\* has already replaced
C18_Witness ==
    /\ mainPc = "diff" /\ idx = 2 /\ Len(targets) = 2
    /\ Url(1) = Url(2)
    /\ results[1].ok /\ results[2].ok
    /\ ~SameEntry(state, loaded, Url(2))
    /\ HoldsSignature(state, 1)

\* --------------------------------------------------- C19 frame of a run

\* some target of URL u was fetched ok in this run
FetchedOk(u) == \E i \in Tasks : Url(i) = u /\ results[i].ok

\* C19: the in-memory state differs from the loaded one only under URLs
\* fetched ok in this run, and a step that changes state.json writes a file
\* that keeps every URL of the old file, with the old record under every URL
\* not fetched ok in this run.
C19_Frame ==
    [][/\ \A u \in (DOMAIN state) \cup (DOMAIN loaded) :
             /\ u \in DOMAIN loaded => u \in DOMAIN state
             /\ ~FetchedOk(u) => SameEntry(state, loaded, u)
       /\ stateFile' # stateFile =>
             /\ stateFile = loaded
             /\ DOMAIN stateFile \subseteq DOMAIN stateFile'
             /\ \A u \in DOMAIN stateFile' :
                   ~FetchedOk(u) => SameEntry(stateFile', stateFile, u)]_vars

\* a run saved a new record for a target and kept the record of a URL that
\* is not in its list
C19_Witness ==
    /\ mainPc = "done"
    /\ \E u \in DOMAIN loaded :
          /\ \A i \in Tasks : Url(i) # u
          /\ u \in DOMAIN stateFile /\ stateFile[u] = loaded[u]
    /\ \E i \in Tasks : results[i].ok /\ ~SameEntry(stateFile, loaded, Url(i))

\* ----------------------------------------------------- C20 kind change

\* the field the kind of target k compares
ComparisonField(k) == IF targets[k].type = INVESTING THEN "count" ELSE "page_hash"

\* C20: an iteration on an ok result whose prior record lacks the field its
\* kind compares appends no event and leaves under the URL a record of the
\* type and the new signature only.
C20_KindChange ==
    [][(/\ mainPc = "diff" /\ idx <= Len(targets) /\ idx' = idx + 1
        /\ results[idx].ok
        /\ Url(idx) \in DOMAIN state
        /\ ~Has(state[Url(idx)], ComparisonField(idx)))
       => /\ changes' = changes
          /\ Url(idx) \in DOMAIN state'
          /\ DOMAIN state'[Url(idx)] = {"type", ComparisonField(idx)}
          /\ state'[Url(idx)].type = targets[idx].type
          /\ state'[Url(idx)][ComparisonField(idx)] =
                (IF targets[idx].type = INVESTING
                 THEN results[idx].count ELSE results[idx].page_hash)]_vars

\* a URL recorded by count is now watched by page hash: the run saved a hash
\* record without the count and reported nothing for it
C20_Witness ==
    /\ mainPc = "done"
    /\ \E i \in Tasks :
          /\ targets[i].type # INVESTING
          /\ Url(i) \in DOMAIN loaded
          /\ Has(loaded[Url(i)], "count") /\ ~Has(loaded[Url(i)], "page_hash")
          /\ results[i].ok
          /\ stateFile[Url(i)] = [type |-> targets[i].type,
                                  page_hash |-> results[i].page_hash]
          /\ EventsOf(i) = {}
====
